---- MODULE Spec2Model ----
(***************************************************************************)
(* A model of the cpp-pubsub broker: the bounded message queue, the worker *)
(* pool that drains it, topic filters, subscriptions and the broker's      *)
(* lifecycle (src/src/broker.cpp, src/src/subscription.cpp,                *)
(* src/src/topic.cpp).                                                     *)
(*                                                                         *)
(* Threads of the model:                                                   *)
(*   - one lifecycle thread calling Broker::initialize / Broker::shutdown  *)
(*     (the process entry point; the two calls never overlap each other);  *)
(*   - the producer threads of Producers, each calling Broker::publish;    *)
(*   - one client thread calling Broker::subscribe / Broker::unsubscribe;  *)
(*   - the worker threads spawned by initialize, running worker_thread     *)
(*     and, inside it, the subscribers' callbacks and the calls these make *)
(*     into the broker.                                                    *)
(* Every step is one access to shared state (an atomic load or store, or   *)
(* one critical section of a mutex), so the interleavings of the model are *)
(* the interleavings of the program.                                       *)
(*                                                                         *)
(* Strings are sequences of one-character strings: the topic a/b is        *)
(* <<"a", "/", "b">>.                                                      *)
(***************************************************************************)
EXTENDS Integers, Sequences, FiniteSets, Bags, TLC

(* ----------------------------- bounds ---------------------------------- *)

\* Largest thread_count (and hardware concurrency) the lifecycle thread uses.
MaxThreads == 2

\* Largest max_queue_size passed to initialize (0 = unbounded is always tried).
MaxQueueSize == 1

\* Number of publish calls that pass the running_ test, under QueueSpec.
MaxMessages == 2

\* Number of publish calls that pass the running_ test, under Spec.
MaxPublished == 1

\* Number of publish calls that pass the running_ test, under DispatchSpec.
MaxDispatched == 2

\* Number of subscriptions created, under DispatchSpec.
MaxDispatchSubscriptions == 1

\* Number of subscriptions created (Subscription::create calls).
MaxSubscriptions == 2

\* Largest max_messages option given to subscribe (0 = unlimited).
MaxMaxMessages == 1

Producers == {"p1", "p2"}

Workers == 1..MaxThreads

\* A publish call made by a callback runs on the worker thread that runs the
\* callback: the name under which worker w calls publish.
WorkerCaller == <<"w1", "w2", "w3">>

\* The threads that call publish.
Callers == Producers \cup {WorkerCaller[w] : w \in Workers}

\* Topics published to, and patterns subscribed with.
Topics == { <<"a", "/", "b">>, <<"c">> }

Patterns == { <<"a", "/", "+">>, <<"c">> }

\* Longest topic and longest pattern of the exhaustive part of the filter
\* inputs.
MaxTopicLen == 3

MaxPatternLen == 3

\* Most deliver calls on a handle that get past the three tests.
MaxDirect == 2

\* The same where all the workers deliver as well.
MaxCountedDirect == 1

\* Most publish calls where the order of delivery is observed.
MaxOrdered == 3

\* All the strings of at most n characters of alphabet.
Strings(alphabet, n) == UNION {[1..k -> alphabet] : k \in 0..n}

\* The topics the filters are tried on: every short topic over a, b and /,
\* the topics a/b/c, a/b/d/c, a//c, a/c, a/b and b/a, topics holding a '|',
\* an upper-case topic, the topic ./a and topics holding a line feed.
FilterTopics ==
    Strings({"a", "b", "/"}, MaxTopicLen)
        \cup { <<"a", "/", "b", "/", "c">>,
               <<"a", "/", "b", "/", "d", "/", "c">>,
               <<"a", "/", "/", "c">>,
               <<"a", "/", "c">>,
               <<"b", "/", "a">>,
               <<"a", "|", "b", "/", "c">>,
               <<"a", "|", "b">>,
               <<"A">>,
               <<".", "/", "a">>,
               <<"\n">>,
               <<"a", "/", "\n">> }

\* The patterns the filters are built from: every short pattern over a, /,
\* + and #, and the patterns a/+/c, a/b/c, a|b/+, a|b, ./+ and A.
FilterPatterns ==
    Strings({"a", "/", "+", "#"}, MaxPatternLen)
        \cup { <<"a", "/", "+", "/", "c">>,
               <<"a", "/", "b", "/", "c">>,
               <<"a", "|", "b", "/", "+">>,
               <<"a", "|", "b">>,
               <<".", "/", "+">>,
               <<"A">> }

\* enum class Priority { Low, Normal, High, Critical }
PriorityLow == 0

PriorityNormal == 1

PriorityHigh == 2

PriorityCritical == 3

Priorities == {PriorityLow, PriorityNormal, PriorityHigh, PriorityCritical}

None == "none"

\* The null subscription handle.
NullSub == -1

\* The null message pointer.
NullMessage == [id |-> 0, topic |-> << >>]

(* ------------------------- topic filters ------------------------------- *)

\* The characters wildcardToRegex escapes with a backslash.
Escaped == {".", "*", "[", "]", "(", ")", "\\", "^", "$"}

\* std::string::find of a character: does it occur in the pattern
Contains(s, c) == \E i \in 1..Len(s) : s[i] = c

\* TopicFilterFactory::has_wildcards
has_wildcards(pattern) == Contains(pattern, "+") \/ Contains(pattern, "#")

\* WildcardTopicFilter::wildcardToRegex: the text of the regular expression.
RECURSIVE wildcardToRegexFrom(_, _)
wildcardToRegexFrom(pattern, i) ==
    IF i > Len(pattern) THEN << >>
    ELSE LET c == pattern[i]
             piece == IF c = "+" THEN <<"[", "^", "/", "]", "+">>
                      ELSE IF c = "#" THEN <<".", "*">>
                      ELSE IF c \in Escaped THEN <<"\\", c>>
                      ELSE <<c>>
         IN  piece \o wildcardToRegexFrom(pattern, i + 1)

wildcardToRegex(pattern) == wildcardToRegexFrom(pattern, 1)

\* ECMAScript line terminators, which '.' does not match.
LineTerminators == {"\n", "\r"}

\* Is the regex text at position i the bracket expression [^/]+ ?
IsNotSlashPlus(r, i) ==
    /\ i + 4 <= Len(r)
    /\ SubSeq(r, i, i + 4) = <<"[", "^", "/", "]", "+">>

\* std::regex_match (ECMAScript grammar) restricted to the expressions
\* wildcardToRegex produces from patterns without '?', '{' and '}': does the
\* alternative r from position i match t from position j up to the end of t
\* (the match is anchored at both ends).
RECURSIVE RegexMatchFrom(_, _, _, _)
RegexMatchFrom(r, i, t, j) ==
    IF i > Len(r) THEN j > Len(t)
    ELSE IF r[i] = "\\" /\ i + 1 <= Len(r) THEN
        /\ j <= Len(t)
        /\ t[j] = r[i + 1]
        /\ RegexMatchFrom(r, i + 2, t, j + 1)
    ELSE IF IsNotSlashPlus(r, i) THEN
        \E k \in 1..(Len(t) - j + 1) :
            /\ \A m \in j..(j + k - 1) : t[m] # "/"
            /\ RegexMatchFrom(r, i + 5, t, j + k)
    ELSE IF r[i] = "." /\ i + 1 <= Len(r) /\ r[i + 1] = "*" THEN
        \E k \in 0..(Len(t) - j + 1) :
            /\ \A m \in j..(j + k - 1) : t[m] \notin LineTerminators
            /\ RegexMatchFrom(r, i + 2, t, j + k)
    ELSE
        /\ j <= Len(t)
        /\ t[j] = r[i]
        /\ RegexMatchFrom(r, i + 1, t, j + 1)

\* The alternatives of a regular expression: wildcardToRegex leaves '|'
\* as it is, and in the ECMAScript grammar an unescaped '|' outside a bracket
\* expression separates alternatives (cur is the alternative being read).
RECURSIVE AlternativesFrom(_, _, _)
AlternativesFrom(r, i, cur) ==
    IF i > Len(r) THEN <<cur>>
    ELSE IF r[i] = "\\" /\ i + 1 <= Len(r)
    THEN AlternativesFrom(r, i + 2, cur \o <<r[i], r[i + 1]>>)
    ELSE IF r[i] = "|" THEN <<cur>> \o AlternativesFrom(r, i + 1, << >>)
    ELSE AlternativesFrom(r, i + 1, Append(cur, r[i]))

Alternatives(r) == AlternativesFrom(r, 1, << >>)

\* std::regex_match(t, std::regex(r)): the whole of t matches one of the
\* alternatives of r.
regex_match(t, r) ==
    \E alternative \in {Alternatives(r)[k] : k \in 1..Len(Alternatives(r))} :
        RegexMatchFrom(alternative, 1, t, 1)

\* ExactMatches comparing only the first pattern.size() characters of the
\* topic.
ExactMatchesPrefix(pattern, topic) ==
    /\ Len(pattern) <= Len(topic)
    /\ SubSeq(topic, 1, Len(pattern)) = pattern

\* ExactTopicFilter::matches
ExactMatches(pattern, topic) == pattern = topic

\* WildcardTopicFilter::matches, on the member regex_ the constructor built
\* from the pattern.
WildcardMatches(pattern, topic) ==
    \E regex_ \in {wildcardToRegex(pattern)} : regex_match(topic, regex_)

\* TopicFilterFactory::create followed by TopicFilter::matches
FilterMatches(pattern, topic) ==
    IF has_wildcards(pattern) THEN WildcardMatches(pattern, topic)
    ELSE ExactMatches(pattern, topic)

(* ------------------------------ state ---------------------------------- *)

VARIABLES
    running,        \* Broker::running_
    config,         \* Broker::config_ (thread_count, max_queue_size)
    queue,          \* Broker::message_queue_
    published,      \* Broker::published_messages_
    delivered,      \* Broker::delivered_messages_
    topics,         \* Broker::topics_ (empty: get_or_create_topic has no caller)
    subscriptions,  \* Broker::subscriptions_ (the ids registered)
    subs,           \* the Subscription objects created so far, by id
    next_id,        \* the static next_id of Subscription::create
    wpc,            \* workers_: position of each worker thread
    wmsg,           \* worker_thread: the local variable message
    wsnap,          \* process_message: matching_subs not yet delivered to
    wsub,           \* process_message: the subscription being delivered to
    ppc,            \* position of each producer inside publish
    pmsg,           \* the message each producer passed to publish
    ptopic,         \* publish: the parameter topic_str of each producer's call
    pprio,          \* Message::priority() of a message refused by a full queue
    pret,           \* what publish returned to the producer
    accepted,       \* number of publish calls that returned true
    rejected,       \* number of publish calls refused by a full queue
    cpc,            \* position of the lifecycle thread
    cret,           \* what initialize / shutdown returned
    spc,            \* position of the client thread inside subscribe
    sarg,           \* the subscription the client's call is about
    sret,           \* what subscribe / unsubscribe / cancel / deliver returned
    smsg,           \* the message the client passed to deliver
    sent,           \* history: the messages for which publish returned true
    invoked,        \* history: the callback invocations made, with their outcome
    unsubscribed_at, \* history: published_messages_ when unsubscribe(s) returned true
    direct,         \* history: the callback invocations made by deliver calls on a handle
    enqueued,       \* history: the ids of the messages pushed on the queue, in that order
    passed,         \* history: the topic_str passed to publish with each message pushed, by id
    dequeued        \* history: the ids of the messages the workers popped, in that order

vars == << running, config, queue, published, delivered, topics, subscriptions,
           subs, next_id, wpc, wmsg, wsnap, wsub, ppc, pmsg, ptopic, pprio,
           pret, accepted, rejected, cpc, cret, spc, sarg, sret, smsg, sent,
           invoked, unsubscribed_at, direct, enqueued, passed, dequeued >>

brokerVars == << running, config, queue, published, delivered, topics,
                 subscriptions >>

subVars == << subs, next_id >>

workerVars == << wpc, wmsg, wsnap, wsub >>

producerVars == << ppc, pmsg, ptopic, pprio, pret, accepted, rejected >>

lifecycleVars == << cpc, cret >>

clientVars == << spc, sarg, sret, smsg >>

\* History variables: they record what happened and no action reads them.
historyVars == << sent, invoked, unsubscribed_at, direct, enqueued, passed,
                 dequeued >>

\* BrokerConfig::max_queue_size = 10000, the default member initialiser.
DefaultMaxQueueSize == 10000

\* BrokerConfig as the model keeps it.
BrokerConfig(tc, mqs) == [thread_count |-> tc, max_queue_size |-> mqs]

\* Broker::Broker and the static initialisers: a Stopped broker.
Init ==
    /\ running = FALSE
    /\ config = BrokerConfig(0, DefaultMaxQueueSize)
    /\ queue = << >>
    /\ published = 0
    /\ delivered = 0
    /\ topics = {}
    /\ subscriptions = {}
    /\ subs = << >>
    /\ next_id = 0
    /\ wpc = [w \in Workers |-> None]
    /\ wmsg = [w \in Workers |-> NullMessage]
    /\ wsnap = [w \in Workers |-> {}]
    /\ wsub = [w \in Workers |-> NullSub]
    /\ ppc = [p \in Callers |-> "idle"]
    /\ pmsg = [p \in Callers |-> NullMessage]
    /\ ptopic = [p \in Callers |-> None]
    /\ pprio = [p \in Callers |-> PriorityLow]
    /\ pret = [p \in Callers |-> None]
    /\ accepted = 0
    /\ rejected = 0
    /\ cpc = "idle"
    /\ cret = None
    /\ spc = "idle"
    /\ sarg = NullSub
    /\ sret = None
    /\ smsg = NullMessage
    /\ sent = {}
    /\ invoked = EmptyBag
    /\ unsubscribed_at = << >>
    /\ direct = EmptyBag
    /\ enqueued = << >>
    /\ passed = << >>
    /\ dequeued = << >>

\* workers_.size()
WorkerCount == Cardinality({w \in Workers : wpc[w] # None})

\* The workers blocked inside queue_cv_.wait.
Sleeping == {w \in Workers : wpc[w] = "sleep"}

\* LocksHeld with the lock_guard of process_message kept over the delivery
\* loop instead of being confined to the scan of the registry.
LocksHeldWhileDelivering(w) ==
    IF wpc[w] = "predfalse" THEN {"queue_mutex_"}
    ELSE IF wpc[w] \in {"deliver", "deliver_inc", "callback"}
    THEN {"subscriptions_mutex_"}
    ELSE {}

\* LocksHeld with the unique_lock of worker_thread kept until the end of the
\* loop body, over process_message.
LocksHeldWhileProcessing(w) ==
    IF wpc[w] \in {"predfalse", "process", "deliver", "deliver_inc", "callback"}
    THEN {"queue_mutex_"}
    ELSE {}

\* The broker mutexes worker w holds between two steps. Every critical
\* section of worker_thread and process_message is one step, except that a
\* worker that evaluated the wait predicate to false keeps queue_mutex_
\* until it blocks on the condition variable; the unique_lock of
\* worker_thread and the lock_guard of process_message are both released
\* before deliver is called.
LocksHeld(w) ==
    IF wpc[w] = "predfalse" THEN {"queue_mutex_"} ELSE {}

\* Is mutex m held by some worker (no other thread keeps a mutex between two
\* steps).
MutexHeld(m) == \E w \in Workers : m \in LocksHeld(w)

QueueMutexHeld == MutexHeld("queue_mutex_")

(* --------------------------- lifecycle --------------------------------- *)

\* initialize: the number of workers spawned for a requested thread_count,
\* hc being what std::thread::hardware_concurrency() returns.
EffectiveThreadCount(tc, hc) ==
    IF tc = 0 THEN (IF hc = 0 THEN 1 ELSE hc) ELSE tc

\* SpawnWorkers with a loop that stops one thread short.
SpawnWorkersOneShort(n) ==
    [w \in Workers |->
        IF WorkerCount < w /\ w < WorkerCount + n THEN "loop" ELSE wpc[w]]

\* workers_ after the emplace_back loop of initialize appended n threads.
SpawnWorkers(n) ==
    [w \in Workers |->
        IF WorkerCount < w /\ w <= WorkerCount + n THEN "loop" ELSE wpc[w]]

\* Broker::initialize(config), one critical section of topics_mutex_.
Initialize(tc, mqs, hc) ==
    /\ cpc = "idle"
    /\ cpc' = "returned"
    /\ IF running
       THEN /\ cret' = "init_false"
            /\ UNCHANGED << brokerVars, workerVars >>
       ELSE /\ config' = BrokerConfig(EffectiveThreadCount(tc, hc), mqs)
            /\ running' = TRUE
            /\ wpc' = SpawnWorkers(EffectiveThreadCount(tc, hc))
            /\ cret' = "init_true"
            /\ UNCHANGED << queue, published, delivered, topics,
                            subscriptions, wmsg, wsnap, wsub >>
    /\ UNCHANGED << subVars, producerVars, clientVars >>
    /\ UNCHANGED historyVars

\* Broker::shutdown, first critical section: the running_ test and store.
ShutdownBegin ==
    /\ cpc = "idle"
    /\ IF ~running
       THEN /\ cret' = "shutdown_noop"
            /\ cpc' = "returned"
            /\ UNCHANGED running
       ELSE /\ running' = FALSE
            /\ cpc' = "sd_notify"
            /\ UNCHANGED cret
    /\ UNCHANGED << config, queue, published, delivered, topics, subscriptions,
                    subVars, workerVars, producerVars, clientVars >>
    /\ UNCHANGED historyVars

\* std::condition_variable::notify_all: every thread blocked in wait wakes.
NotifyAll == [w \in Workers |-> IF w \in Sleeping THEN "lock" ELSE wpc[w]]

\* Broker::shutdown: queue_cv_.notify_all()
ShutdownNotify ==
    /\ cpc = "sd_notify"
    /\ wpc' = NotifyAll
    /\ cpc' = "sd_join"
    /\ UNCHANGED << brokerVars, subVars, wmsg, wsnap, wsub, producerVars,
                    cret, clientVars >>
    /\ UNCHANGED historyVars

\* Broker::shutdown: the join loop, which ends once every worker has
\* returned from worker_thread, and workers_.clear().
ShutdownJoin ==
    /\ cpc = "sd_join"
    /\ \A w \in Workers : wpc[w] \in {None, "exited"}
    /\ wpc' = [w \in Workers |-> None]
    /\ cpc' = "sd_clear"
    /\ UNCHANGED << brokerVars, subVars, wmsg, wsnap, wsub, producerVars,
                    cret, clientVars >>
    /\ UNCHANGED historyVars

\* ShutdownClear with subscriptions_.clear() left out.
ShutdownClearTopicsOnly ==
    /\ cpc = "sd_clear"
    /\ ~MutexHeld("subscriptions_mutex_")
    /\ topics' = {}
    /\ cpc' = "returned"
    /\ cret' = "shutdown_done"
    /\ UNCHANGED << running, config, queue, published, delivered,
                    subscriptions, subVars, workerVars, producerVars,
                    clientVars >>
    /\ UNCHANGED historyVars

\* Broker::shutdown, last critical section: both registries are cleared.
ShutdownClear ==
    /\ cpc = "sd_clear"
    /\ ~MutexHeld("subscriptions_mutex_")
    /\ topics' = {}
    /\ subscriptions' = {}
    /\ cpc' = "returned"
    /\ cret' = "shutdown_done"
    /\ UNCHANGED << running, config, queue, published, delivered, subVars,
                    workerVars, producerVars, clientVars >>
    /\ UNCHANGED historyVars

\* The lifecycle thread goes on after initialize or shutdown returned.
LifecycleReturn ==
    /\ cpc = "returned"
    /\ cpc' = "idle"
    /\ cret' = None
    /\ UNCHANGED << brokerVars, subVars, workerVars, producerVars,
                    clientVars >>
    /\ UNCHANGED historyVars

(* ----------------------------- publish --------------------------------- *)

\* Message::create as far as the broker reads the message: its identity and
\* its topic. A message is identified by the ticket its publish call draws
\* from published_messages_++ (0 before that), which no two calls share.
Message(id, topic) == [id |-> id, topic |-> topic]

\* QueueFull with > in place of >=.
QueueFullOffByOne ==
    config.max_queue_size > 0 /\ Len(queue) > config.max_queue_size

\* Broker::publish: the queue-full test made under queue_mutex_.
QueueFull == config.max_queue_size > 0 /\ Len(queue) >= config.max_queue_size

\* The publish calls that passed the running_ test and have not yet
\* incremented published_messages_.
BeforeIncrement == {p \in Callers : ppc[p] = "inc"}

\* PublishCall with published_messages_++ moved before the running_ test.
PublishCallCountsFirst(p, topic_str, topic) ==
    /\ ppc[p] = "idle"
    /\ pmsg' = [pmsg EXCEPT ![p] = Message(0, topic)]
    /\ ptopic' = [ptopic EXCEPT ![p] = topic_str]
    /\ IF ~running
       THEN /\ pret' = [pret EXCEPT ![p] = "false"]
            /\ ppc' = [ppc EXCEPT ![p] = "returned"]
            /\ published' = published + 1
       ELSE /\ pret' = pret
            /\ ppc' = [ppc EXCEPT ![p] = "inc"]
            /\ published' = published
    /\ UNCHANGED << running, config, queue, delivered, topics, subscriptions,
                    subVars, workerVars, pprio, accepted, rejected,
                    lifecycleVars, clientVars >>
    /\ UNCHANGED historyVars

\* Broker::publish(topic_str, message): the running_ test. The comparison of
\* message->topic() with topic_str that follows has an empty body.
PublishCall(p, topic_str, topic) ==
    /\ ppc[p] = "idle"
    /\ pmsg' = [pmsg EXCEPT ![p] = Message(0, topic)]
    /\ ptopic' = [ptopic EXCEPT ![p] = topic_str]
    /\ IF ~running
       THEN /\ pret' = [pret EXCEPT ![p] = "false"]
            /\ ppc' = [ppc EXCEPT ![p] = "returned"]
       ELSE /\ pret' = pret
            /\ ppc' = [ppc EXCEPT ![p] = "inc"]
    /\ UNCHANGED << brokerVars, subVars, workerVars, pprio, accepted, rejected,
                    lifecycleVars, clientVars >>
    /\ UNCHANGED historyVars

\* PublishIncrement with the increment left out.
PublishIncrementLost(p) ==
    /\ ppc[p] = "inc"
    /\ pmsg' = [pmsg EXCEPT ![p].id = published + 1]
    /\ ptopic' = ptopic
    /\ ppc' = [ppc EXCEPT ![p] = "enqueue"]
    /\ UNCHANGED << brokerVars, subVars, workerVars, pprio, pret, accepted,
                    rejected, lifecycleVars, clientVars >>
    /\ UNCHANGED historyVars

\* Broker::publish: published_messages_++
PublishIncrement(p) ==
    /\ ppc[p] = "inc"
    /\ published' = published + 1
    /\ pmsg' = [pmsg EXCEPT ![p].id = published + 1]
    /\ ptopic' = ptopic
    /\ ppc' = [ppc EXCEPT ![p] = "enqueue"]
    /\ UNCHANGED << running, config, queue, delivered, topics, subscriptions,
                    subVars, workerVars, pprio, pret, accepted, rejected,
                    lifecycleVars, clientVars >>
    /\ UNCHANGED historyVars

\* PublishEnqueue with a refused publish taken back from
\* published_messages_.
PublishEnqueueUncounts(p, priority) ==
    /\ ppc[p] = "enqueue"
    /\ ~QueueMutexHeld
    /\ IF QueueFull
       THEN /\ pret' = [pret EXCEPT ![p] = "false"]
            /\ pprio' = [pprio EXCEPT ![p] = priority]
            /\ rejected' = rejected + 1
            /\ published' = published - 1
            /\ ppc' = [ppc EXCEPT ![p] = "returned"]
            /\ UNCHANGED << queue, accepted, enqueued, passed >>
       ELSE /\ queue' = Append(queue, pmsg[p])
            /\ enqueued' = Append(enqueued, pmsg[p].id)
            /\ passed' = passed @@ (pmsg[p].id :> ptopic[p])
            /\ ppc' = [ppc EXCEPT ![p] = "notify"]
            /\ UNCHANGED << published, pret, pprio, accepted, rejected >>
    /\ UNCHANGED << running, config, delivered, topics, subscriptions,
                    subVars, workerVars, pmsg, ptopic, lifecycleVars,
                    clientVars >>
    /\ UNCHANGED << sent, invoked, unsubscribed_at, direct, dequeued >>

\* Broker::publish: the critical section of queue_mutex_; priority is
\* message->priority(), which publish reads here and nowhere else. Both
\* branches of the priority test return false without touching the queue.
PublishEnqueue(p, priority) ==
    /\ ppc[p] = "enqueue"
    /\ ~QueueMutexHeld
    /\ IF QueueFull
       THEN /\ IF priority <= PriorityNormal
               THEN pret' = [pret EXCEPT ![p] = "false"]
               ELSE pret' = [pret EXCEPT ![p] = "false"]
            /\ pprio' = [pprio EXCEPT ![p] = priority]
            /\ rejected' = rejected + 1
            /\ ppc' = [ppc EXCEPT ![p] = "returned"]
            /\ UNCHANGED << queue, accepted, enqueued, passed >>
       ELSE /\ queue' = Append(queue, pmsg[p])
            /\ enqueued' = Append(enqueued, pmsg[p].id)
            /\ passed' = passed @@ (pmsg[p].id :> ptopic[p])
            /\ ppc' = [ppc EXCEPT ![p] = "notify"]
            /\ UNCHANGED << pret, pprio, accepted, rejected >>
    /\ UNCHANGED << running, config, published, delivered, topics,
                    subscriptions, subVars, workerVars, pmsg, ptopic,
                    lifecycleVars, clientVars >>
    /\ UNCHANGED << sent, invoked, unsubscribed_at, direct, dequeued >>

\* PublishNotify with queue_cv_.notify_one() left out.
PublishNotifyNobody(p) ==
    /\ ppc[p] = "notify"
    /\ wpc' = wpc
    /\ pret' = [pret EXCEPT ![p] = "true"]
    /\ accepted' = accepted + 1
    /\ ppc' = [ppc EXCEPT ![p] = "returned"]
    /\ sent' = sent \cup {pmsg[p]}
    /\ UNCHANGED << brokerVars, subVars, wmsg, wsnap, wsub, pmsg, ptopic,
                    pprio, rejected, lifecycleVars, clientVars, invoked,
                    unsubscribed_at, direct, enqueued, passed, dequeued >>

\* Broker::publish: queue_cv_.notify_one() and return true. notify_one wakes
\* one of the threads blocked in wait, if there is any.
PublishNotify(p) ==
    /\ ppc[p] = "notify"
    /\ \/ /\ Sleeping = {}
          /\ wpc' = wpc
       \/ \E w \in Sleeping : wpc' = [wpc EXCEPT ![w] = "lock"]
    /\ pret' = [pret EXCEPT ![p] = "true"]
    /\ accepted' = accepted + 1
    /\ ppc' = [ppc EXCEPT ![p] = "returned"]
    /\ UNCHANGED << brokerVars, subVars, wmsg, wsnap, wsub, pmsg, ptopic,
                    pprio, rejected, lifecycleVars, clientVars >>
    /\ sent' = sent \cup {pmsg[p]}
    /\ UNCHANGED << invoked, unsubscribed_at, direct, enqueued, passed,
                    dequeued >>

\* The producer goes on after publish returned and drops its message.
PublishReturn(p) ==
    /\ ppc[p] = "returned"
    /\ ppc' = [ppc EXCEPT ![p] = "idle"]
    /\ pret' = [pret EXCEPT ![p] = None]
    /\ pmsg' = [pmsg EXCEPT ![p] = NullMessage]
    /\ ptopic' = [ptopic EXCEPT ![p] = None]
    /\ pprio' = [pprio EXCEPT ![p] = PriorityLow]
    /\ UNCHANGED << brokerVars, subVars, workerVars, accepted, rejected,
                    lifecycleVars, clientVars >>
    /\ UNCHANGED historyVars

(* ------------------------ subscribe / unsubscribe ---------------------- *)

\* Subscription::Subscription: message_count_(0), active_(true).
Subscription(pattern, max_messages) ==
    [pattern |-> pattern, max_messages |-> max_messages,
     message_count |-> 0, active |-> TRUE]

\* The ids of the Subscription objects created so far (sub_0, sub_1, ...).
Created == DOMAIN subs

\* SubscribeCall with Subscription::create moved before the running_ test.
SubscribeCallCreatesFirst(pattern, max_messages) ==
    /\ spc = "idle"
    /\ subs' = subs @@ (next_id :> Subscription(pattern, max_messages))
    /\ next_id' = next_id + 1
    /\ IF ~running
       THEN /\ sret' = "throw"
            /\ spc' = "returned"
            /\ UNCHANGED sarg
       ELSE /\ sarg' = next_id
            /\ sret' = sret
            /\ spc' = "store"
    /\ UNCHANGED << brokerVars, workerVars, producerVars, lifecycleVars,
                    smsg >>
    /\ UNCHANGED historyVars

\* Broker::subscribe: the running_ test, then Subscription::create, which
\* takes the next id from its static counter.
SubscribeCall(pattern, max_messages) ==
    /\ spc = "idle"
    /\ IF ~running
       THEN /\ sret' = "throw"
            /\ spc' = "returned"
            /\ UNCHANGED << sarg, subVars >>
       ELSE /\ subs' = subs @@ (next_id :> Subscription(pattern, max_messages))
            /\ next_id' = next_id + 1
            /\ sarg' = next_id
            /\ sret' = sret
            /\ spc' = "store"
    /\ UNCHANGED << brokerVars, workerVars, producerVars, lifecycleVars,
                    smsg >>
    /\ UNCHANGED historyVars

\* Broker::subscribe: the critical section of subscriptions_mutex_ and the
\* return of the handle.
SubscribeStore ==
    /\ spc = "store"
    /\ ~MutexHeld("subscriptions_mutex_")
    /\ subscriptions' = subscriptions \cup {sarg}
    /\ sret' = "handle"
    /\ spc' = "returned"
    /\ UNCHANGED << running, config, queue, published, delivered, topics,
                    subVars, workerVars, producerVars, lifecycleVars, sarg,
                    smsg >>
    /\ UNCHANGED historyVars

\* Cancel clearing the active flag of every subscription.
CancelAll(s) == [x \in DOMAIN subs |-> [subs[x] EXCEPT !.active = FALSE]]

\* Cancel flipping the active flag instead of clearing it.
CancelToggles(s) == [subs EXCEPT ![s].active = ~@]

\* Cancel leaving the active flag set.
CancelNothing(s) == subs

\* Subscription::cancel
Cancel(s) == [subs EXCEPT ![s].active = FALSE]

\* Unsubscribe erasing the subscription from the registry without cancel().
UnsubscribeWithoutCancel(s) ==
    /\ spc = "idle"
    /\ s # NullSub => ~MutexHeld("subscriptions_mutex_")
    /\ sarg' = s
    /\ IF s = NullSub \/ s \notin subscriptions
       THEN /\ sret' = "unsub_false"
            /\ UNCHANGED << subs, subscriptions, unsubscribed_at >>
       ELSE /\ subs' = subs
            /\ subscriptions' = subscriptions \ {s}
            /\ sret' = "unsub_true"
            /\ unsubscribed_at' = unsubscribed_at @@ (s :> published)
    /\ spc' = "returned"
    /\ UNCHANGED << running, config, queue, published, delivered, topics,
                    next_id, workerVars, producerVars, lifecycleVars,
                    smsg >>
    /\ UNCHANGED << sent, invoked, direct, enqueued, passed, dequeued >>

\* Broker::unsubscribe(subscription); s = NullSub is the null handle. Past the
\* null test the whole call is one critical section of subscriptions_mutex_.
Unsubscribe(s) ==
    /\ spc = "idle"
    /\ s # NullSub => ~MutexHeld("subscriptions_mutex_")
    /\ sarg' = s
    /\ IF s = NullSub \/ s \notin subscriptions
       THEN /\ sret' = "unsub_false"
            /\ UNCHANGED << subs, subscriptions, unsubscribed_at >>
       ELSE /\ subs' = Cancel(s)
            /\ subscriptions' = subscriptions \ {s}
            /\ sret' = "unsub_true"
            /\ unsubscribed_at' = unsubscribed_at @@ (s :> published)
    /\ spc' = "returned"
    /\ UNCHANGED << running, config, queue, published, delivered, topics,
                    next_id, workerVars, producerVars, lifecycleVars,
                    smsg >>
    /\ UNCHANGED << sent, invoked, direct, enqueued, passed, dequeued >>

\* The client thread goes on after subscribe or unsubscribe returned.
ClientReturn ==
    /\ spc = "returned"
    /\ spc' = "idle"
    /\ sret' = None
    /\ sarg' = NullSub
    /\ smsg' = NullMessage
    /\ UNCHANGED << brokerVars, subVars, workerVars, producerVars,
                    lifecycleVars >>
    /\ UNCHANGED historyVars

(* ----------------------------- workers --------------------------------- *)

\* worker_thread: the test of while (running_).
WorkerLoop(w) ==
    /\ wpc[w] = "loop"
    /\ wpc' = [wpc EXCEPT ![w] = IF running THEN "lock" ELSE "exited"]
    /\ UNCHANGED << brokerVars, subVars, wmsg, wsnap, wsub, producerVars,
                    lifecycleVars, clientVars >>
    /\ UNCHANGED historyVars

\* The predicate of queue_cv_.wait.
WaitPredicate == ~running \/ queue # << >>

\* WorkerWait taking the message at the back of the queue.
WorkerWaitTakesLast(w) ==
    /\ wpc[w] = "lock"
    /\ ~QueueMutexHeld
    /\ IF ~WaitPredicate
       THEN /\ wpc' = [wpc EXCEPT ![w] = "predfalse"]
            /\ UNCHANGED << queue, wmsg, dequeued >>
       ELSE IF ~running /\ queue = << >>
       THEN /\ wpc' = [wpc EXCEPT ![w] = "exited"]
            /\ UNCHANGED << queue, wmsg, dequeued >>
       ELSE IF queue # << >>
       THEN /\ wmsg' = [wmsg EXCEPT ![w] = queue[Len(queue)]]
            /\ queue' = SubSeq(queue, 1, Len(queue) - 1)
            /\ dequeued' = Append(dequeued, queue[Len(queue)].id)
            /\ wpc' = [wpc EXCEPT ![w] = "process"]
       ELSE /\ wpc' = [wpc EXCEPT ![w] = "loop"]
            /\ UNCHANGED << queue, wmsg, dequeued >>
    /\ UNCHANGED << running, config, published, delivered, topics,
                    subscriptions, subVars, wsnap, wsub, producerVars,
                    lifecycleVars, clientVars >>
    /\ UNCHANGED << sent, invoked, unsubscribed_at, direct, enqueued,
                    passed >>

\* WorkerWait with message_queue_.pop() left out.
WorkerWaitKeepsFront(w) ==
    /\ wpc[w] = "lock"
    /\ ~QueueMutexHeld
    /\ IF ~WaitPredicate
       THEN /\ wpc' = [wpc EXCEPT ![w] = "predfalse"]
            /\ UNCHANGED << queue, wmsg, dequeued >>
       ELSE IF ~running /\ queue = << >>
       THEN /\ wpc' = [wpc EXCEPT ![w] = "exited"]
            /\ UNCHANGED << queue, wmsg, dequeued >>
       ELSE IF queue # << >>
       THEN /\ wmsg' = [wmsg EXCEPT ![w] = Head(queue)]
            /\ queue' = queue
            /\ dequeued' = Append(dequeued, Head(queue).id)
            /\ wpc' = [wpc EXCEPT ![w] = "process"]
       ELSE /\ wpc' = [wpc EXCEPT ![w] = "loop"]
            /\ UNCHANGED << queue, wmsg, dequeued >>
    /\ UNCHANGED << running, config, published, delivered, topics,
                    subscriptions, subVars, wsnap, wsub, producerVars,
                    lifecycleVars, clientVars >>
    /\ UNCHANGED << sent, invoked, unsubscribed_at, direct, enqueued,
                    passed >>

\* worker_thread: with queue_mutex_ taken, the wait predicate is evaluated.
\* If it is false the worker is about to block (still holding the mutex);
\* otherwise the worker returns or dequeues within the same critical section.
WorkerWait(w) ==
    /\ wpc[w] = "lock"
    /\ ~QueueMutexHeld
    /\ IF ~WaitPredicate
       THEN /\ wpc' = [wpc EXCEPT ![w] = "predfalse"]
            /\ UNCHANGED << queue, wmsg, dequeued >>
       ELSE IF ~running /\ queue = << >>
       THEN /\ wpc' = [wpc EXCEPT ![w] = "exited"]
            /\ UNCHANGED << queue, wmsg, dequeued >>
       ELSE IF queue # << >>
       THEN /\ wmsg' = [wmsg EXCEPT ![w] = Head(queue)]
            /\ queue' = Tail(queue)
            /\ dequeued' = Append(dequeued, Head(queue).id)
            /\ wpc' = [wpc EXCEPT ![w] = "process"]
       ELSE /\ wpc' = [wpc EXCEPT ![w] = "loop"]
            /\ UNCHANGED << queue, wmsg, dequeued >>
    /\ UNCHANGED << running, config, published, delivered, topics,
                    subscriptions, subVars, wsnap, wsub, producerVars,
                    lifecycleVars, clientVars >>
    /\ UNCHANGED << sent, invoked, unsubscribed_at, direct, enqueued,
                    passed >>

\* std::condition_variable::wait: the mutex is released and the thread
\* blocks, in one atomic step.
WorkerBlock(w) ==
    /\ wpc[w] = "predfalse"
    /\ wpc' = [wpc EXCEPT ![w] = "sleep"]
    /\ UNCHANGED << brokerVars, subVars, wmsg, wsnap, wsub, producerVars,
                    lifecycleVars, clientVars >>
    /\ UNCHANGED historyVars

\* std::condition_variable::wait may wake without a notification; the
\* predicate is then evaluated again.
SpuriousWakeup(w) ==
    /\ wpc[w] = "sleep"
    /\ wpc' = [wpc EXCEPT ![w] = "lock"]
    /\ UNCHANGED << brokerVars, subVars, wmsg, wsnap, wsub, producerVars,
                    lifecycleVars, clientVars >>
    /\ UNCHANGED historyVars

\* Subscription::matches
SubscriptionMatches(s, topic) == FilterMatches(subs[s].pattern, topic)

\* MatchingSubs with a scan that stops at the first match.
MatchingSubsFirstOnly(message) ==
    LET all == {s \in subscriptions : SubscriptionMatches(s, message.topic)}
    IN  IF all = {} THEN {} ELSE {CHOOSE s \in all : TRUE}

\* process_message: the subscriptions collected under subscriptions_mutex_.
MatchingSubs(message) ==
    {s \in subscriptions : SubscriptionMatches(s, message.topic)}

\* What a worker does once the subscriptions in rest are left to deliver to:
\* the next iteration of the delivery loop, or back to while (running_).
AfterDelivery(w, rest) ==
    /\ wsnap' = [wsnap EXCEPT ![w] = rest]
    /\ wsub' = [wsub EXCEPT ![w] = NullSub]
    /\ IF rest = {}
       THEN /\ wpc' = [wpc EXCEPT ![w] = "loop"]
            /\ wmsg' = [wmsg EXCEPT ![w] = NullMessage]
       ELSE /\ wpc' = [wpc EXCEPT ![w] = "deliver"]
            /\ wmsg' = wmsg

\* process_message: the scan of the subscription registry.
WorkerSnapshot(w) ==
    /\ wpc[w] = "process"
    /\ ~MutexHeld("subscriptions_mutex_")
    /\ AfterDelivery(w, MatchingSubs(wmsg[w]))
    /\ UNCHANGED << brokerVars, subVars, producerVars, lifecycleVars,
                    clientVars >>
    /\ UNCHANGED historyVars

\* DeliverTest with the topic test made before the active test.
DeliverTestFilterFirst(s, message) ==
    IF ~SubscriptionMatches(s, message.topic) THEN "Filtered"
    ELSE IF ~subs[s].active THEN "Rejected"
    ELSE IF subs[s].max_messages > 0
            /\ subs[s].message_count >= subs[s].max_messages THEN "Rejected"
    ELSE "proceed"

\* Subscription::deliver: the three tests made before message_count_++.
\* The result is "proceed" when the delivery goes on to the callback.
DeliverTest(s, message) ==
    IF ~subs[s].active THEN "Rejected"
    ELSE IF ~SubscriptionMatches(s, message.topic) THEN "Filtered"
    ELSE IF subs[s].max_messages > 0
            /\ subs[s].message_count >= subs[s].max_messages THEN "Rejected"
    ELSE "proceed"

\* process_message calls deliver on the next subscription of matching_subs
\* (an unordered_map's iteration order: any order); deliver makes its tests.
WorkerDeliverTest(w, s) ==
    /\ wpc[w] = "deliver"
    /\ s \in wsnap[w]
    /\ IF DeliverTest(s, wmsg[w]) = "proceed"
       THEN /\ wsub' = [wsub EXCEPT ![w] = s]
            /\ wpc' = [wpc EXCEPT ![w] = "deliver_inc"]
            /\ UNCHANGED << wmsg, wsnap >>
       ELSE AfterDelivery(w, wsnap[w] \ {s})
    /\ UNCHANGED << brokerVars, subVars, producerVars, lifecycleVars,
                    clientVars >>
    /\ UNCHANGED historyVars

\* WorkerDeliverIncrement with message_count_++ left out.
WorkerDeliverIncrementLost(w) ==
    /\ wpc[w] = "deliver_inc"
    /\ wpc' = [wpc EXCEPT ![w] = "callback"]
    /\ UNCHANGED << brokerVars, subVars, wmsg, wsnap, wsub, producerVars,
                    lifecycleVars, clientVars >>
    /\ UNCHANGED historyVars

\* Subscription::deliver: message_count_++
WorkerDeliverIncrement(w) ==
    /\ wpc[w] = "deliver_inc"
    /\ subs' = [subs EXCEPT ![wsub[w]].message_count = @ + 1]
    /\ wpc' = [wpc EXCEPT ![w] = "callback"]
    /\ UNCHANGED << brokerVars, next_id, wmsg, wsnap, wsub, producerVars,
                    lifecycleVars, clientVars >>
    /\ UNCHANGED historyVars

\* WorkerCallback without the try / catch of deliver: the exception leaves
\* process_message and ends the worker.
WorkerCallbackPropagates(w, throws) ==
    /\ wpc[w] = "callback"
    /\ ppc[WorkerCaller[w]] = "idle"
    /\ delivered' = IF throws THEN delivered ELSE delivered + 1
    /\ IF throws
       THEN /\ wpc' = [wpc EXCEPT ![w] = "exited"]
            /\ wsnap' = [wsnap EXCEPT ![w] = {}]
            /\ wsub' = [wsub EXCEPT ![w] = NullSub]
            /\ wmsg' = [wmsg EXCEPT ![w] = NullMessage]
       ELSE AfterDelivery(w, wsnap[w] \ {wsub[w]})
    /\ invoked' = invoked (+) SetToBag({[sub |-> wsub[w], id |-> wmsg[w].id,
                                         result |-> IF throws THEN "Error"
                                                    ELSE "Success"]})
    /\ UNCHANGED << running, config, queue, published, topics, subscriptions,
                    subVars, producerVars, lifecycleVars, clientVars, sent,
                    unsubscribed_at, direct, enqueued, passed, dequeued >>

\* History: the callback of subscription s was invoked with message and
\* deliver returned Error (the callback threw) or Success.
Invocation(s, message, throws) ==
    [sub |-> s, id |-> message.id,
     result |-> IF throws THEN "Error" ELSE "Success"]

\* A callback that calls Broker::unsubscribe on the subscription it belongs
\* to: the call runs on worker thread w, inside deliver. Past the null test
\* the call is one critical section of subscriptions_mutex_.
CallbackUnsubscribe(w) ==
    /\ wpc[w] = "callback"
    /\ ~MutexHeld("subscriptions_mutex_")
    /\ wsub[w] \in subscriptions
    /\ subs' = Cancel(wsub[w])
    /\ subscriptions' = subscriptions \ {wsub[w]}
    /\ unsubscribed_at' = unsubscribed_at @@ (wsub[w] :> published)
    /\ UNCHANGED << running, config, queue, published, delivered, topics,
                    next_id, workerVars, producerVars, lifecycleVars,
                    clientVars, sent, invoked, direct, enqueued,
                    passed, dequeued >>

\* WorkerCallback with process_message counting every delivery whose
\* callback was invoked, also those that returned Error.
WorkerCallbackCountsErrors(w, throws) ==
    /\ wpc[w] = "callback"
    /\ ppc[WorkerCaller[w]] = "idle"
    /\ delivered' = delivered + 1
    /\ AfterDelivery(w, wsnap[w] \ {wsub[w]})
    /\ UNCHANGED << running, config, queue, published, topics, subscriptions,
                    subVars, producerVars, lifecycleVars, clientVars >>
    /\ invoked' = invoked (+) SetToBag({Invocation(wsub[w], wmsg[w], throws)})
    /\ UNCHANGED << sent, unsubscribed_at, direct, enqueued, passed, dequeued >>

\* Subscription::deliver: the callback runs and returns (Success, and
\* process_message counts the delivery) or throws (Error, caught in deliver).
\* A publish call the callback made has returned by then.
WorkerCallback(w, throws) ==
    /\ wpc[w] = "callback"
    /\ ppc[WorkerCaller[w]] = "idle"
    /\ delivered' = IF throws THEN delivered ELSE delivered + 1
    /\ AfterDelivery(w, wsnap[w] \ {wsub[w]})
    /\ UNCHANGED << running, config, queue, published, topics, subscriptions,
                    subVars, producerVars, lifecycleVars, clientVars >>
    /\ invoked' = invoked (+) SetToBag({Invocation(wsub[w], wmsg[w], throws)})
    /\ UNCHANGED << sent, unsubscribed_at, direct, enqueued, passed, dequeued >>

(* ------------------- calls on a subscription handle -------------------- *)

\* Subscription::cancel called by the client thread on the handle s that
\* subscribe returned to it.
CancelCall(s) ==
    /\ spc = "idle"
    /\ sarg' = s
    /\ subs' = Cancel(s)
    /\ sret' = "cancelled"
    /\ spc' = "returned"
    /\ UNCHANGED << brokerVars, next_id, workerVars, producerVars,
                    lifecycleVars, smsg >>
    /\ UNCHANGED historyVars

\* Subscription::deliver called by the client thread on the handle s, with a
\* message of the given topic that was never published: the three tests. A
\* test that fails is the result of the call.
DeliverCall(s, topic) ==
    /\ spc = "idle"
    /\ sarg' = s
    /\ smsg' = Message(0, topic)
    /\ IF DeliverTest(s, Message(0, topic)) = "proceed"
       THEN /\ spc' = "deliver_inc"
            /\ sret' = sret
       ELSE /\ spc' = "returned"
            /\ sret' = DeliverTest(s, Message(0, topic))
    /\ UNCHANGED << brokerVars, subVars, workerVars, producerVars,
                    lifecycleVars >>
    /\ UNCHANGED historyVars

\* Subscription::deliver on a handle: message_count_++
DeliverCallIncrement ==
    /\ spc = "deliver_inc"
    /\ subs' = [subs EXCEPT ![sarg].message_count = @ + 1]
    /\ spc' = "callback"
    /\ UNCHANGED << brokerVars, next_id, workerVars, producerVars,
                    lifecycleVars, sarg, sret, smsg >>
    /\ UNCHANGED historyVars

\* History: a deliver call on the handle s invoked the callback and returned
\* Error (the callback threw) or Success.
DirectInvocation(s, throws) ==
    [sub |-> s, result |-> IF throws THEN "Error" ELSE "Success"]

\* Subscription::deliver on a handle: the callback runs and returns
\* (Success) or throws (Error, caught in deliver).
DeliverCallCallback(throws) ==
    /\ spc = "callback"
    /\ sret' = IF throws THEN "Error" ELSE "Success"
    /\ spc' = "returned"
    /\ direct' = direct (+) SetToBag({DirectInvocation(sarg, throws)})
    /\ UNCHANGED << brokerVars, subVars, workerVars, producerVars,
                    lifecycleVars, sarg, smsg, sent, invoked,
                    unsubscribed_at, enqueued, passed, dequeued >>

(* -------------------------- specification ------------------------------ *)

QueueSizes == 0..MaxQueueSize

MaxMessagesOptions == 0..MaxMaxMessages

\* The lifecycle thread, asking for at most maxThreads workers and for a
\* max_queue_size of queueSizes.
Lifecycle(maxThreads, queueSizes) ==
    \/ \E tc \in 0..maxThreads, mqs \in queueSizes :
           \E hc \in IF tc = 0 THEN 0..maxThreads ELSE {0} :
               Initialize(tc, mqs, hc)
    \/ ShutdownBegin
    \/ ShutdownNotify
    \/ ShutdownJoin
    \/ ShutdownClear
    \/ LifecycleReturn

\* A producer thread; at most budget publish calls pass the running_ test.
Producer(p, budget) ==
    \/ /\ running => published + Cardinality(BeforeIncrement) < budget
       /\ \E topic \in Topics : PublishCall(p, topic, topic)
    \/ PublishIncrement(p)
    \/ \E priority \in Priorities : PublishEnqueue(p, priority)
    \/ PublishNotify(p)
    \/ PublishReturn(p)

\* The client thread; at most budget subscriptions are created.
Client(budget) ==
    \/ /\ running => next_id < budget
       /\ \E pattern \in Patterns, m \in MaxMessagesOptions :
              SubscribeCall(pattern, m)
    \/ SubscribeStore
    \/ \E s \in Created \cup {NullSub} : Unsubscribe(s)
    \/ ClientReturn

\* A worker thread.
Worker(w) ==
    \/ WorkerLoop(w)
    \/ WorkerWait(w)
    \/ WorkerBlock(w)
    \/ SpuriousWakeup(w)
    \/ WorkerSnapshot(w)
    \/ \E s \in wsnap[w] : WorkerDeliverTest(w, s)
    \/ WorkerDeliverIncrement(w)
    \/ \E throws \in BOOLEAN : WorkerCallback(w, throws)

\* The steps a worker takes when no subscription is registered.
QueueWorker(w) ==
    \/ WorkerLoop(w)
    \/ WorkerWait(w)
    \/ WorkerBlock(w)
    \/ SpuriousWakeup(w)
    \/ WorkerSnapshot(w)

\* The whole program: the lifecycle thread, one producer, the client and
\* one worker.
Next ==
    \/ Lifecycle(1, {0})
    \/ Producer("p1", MaxPublished)
    \/ Client(MaxSubscriptions)
    \/ \E w \in Workers : Worker(w)

Spec == Init /\ [][Next]_vars

\* The queue under contention: the lifecycle thread, all the producers and
\* all the workers, with no subscription ever made.
QueueNext ==
    \/ Lifecycle(MaxThreads, QueueSizes)
    \/ \E p \in Producers : Producer(p, MaxMessages)
    \/ \E w \in Workers : QueueWorker(w)

QueueSpec == Init /\ [][QueueNext]_vars

\* Shutdown under fair scheduling: the lifecycle thread, one producer and
\* the workers, with no subscription ever made.
FairNext ==
    \/ Lifecycle(MaxThreads, {0})
    \/ Producer("p1", MaxPublished)
    \/ \E w \in Workers : QueueWorker(w)

\* A thread that can take a step eventually takes it (the operating
\* system's scheduler), and a thread waiting for queue_mutex_ eventually gets
\* it. Nothing obliges a caller to call, nor the condition variable to wake a
\* thread that was not notified.
Fairness ==
    /\ WF_vars(ShutdownNotify)
    /\ WF_vars(ShutdownJoin)
    /\ WF_vars(ShutdownClear)
    /\ WF_vars(LifecycleReturn)
    /\ WF_vars(PublishIncrement("p1"))
    /\ SF_vars(\E priority \in Priorities : PublishEnqueue("p1", priority))
    /\ WF_vars(PublishNotify("p1"))
    /\ WF_vars(PublishReturn("p1"))
    /\ \A w \in Workers :
           /\ WF_vars(WorkerLoop(w))
           /\ SF_vars(WorkerWait(w))
           /\ WF_vars(WorkerBlock(w))
           /\ WF_vars(WorkerSnapshot(w))

FairSpec == Init /\ [][FairNext]_vars /\ Fairness

\* The lifecycle thread of a broker that is started once, with a
\* max_queue_size of queueSizes, and stays Running.
StartupWith(maxThreads, queueSizes) ==
    \/ /\ ~running
       /\ \E tc \in 1..maxThreads, mqs \in queueSizes : Initialize(tc, mqs, 0)
    \/ LifecycleReturn

\* The same with an unbounded queue.
Startup(maxThreads) == StartupWith(maxThreads, {0})

\* Dispatch on a broker that stays Running: one producer, the client and
\* all the workers.
DispatchNext ==
    \/ Startup(MaxThreads)
    \/ Producer("p1", MaxDispatched)
    \/ Client(MaxDispatchSubscriptions)
    \/ \E w \in Workers : Worker(w)

DispatchSpec == Init /\ [][DispatchNext]_vars

\* The client thread making subscriptions without max_messages and never
\* cancelling one; at most budget subscriptions are created.
Subscriber(budget) ==
    \/ /\ next_id < budget
       /\ \E pattern \in Patterns : SubscribeCall(pattern, 0)
    \/ SubscribeStore
    \/ ClientReturn

\* The subscriptions are all made and the client is back from subscribe.
SubscriptionsFixed == next_id = MaxSubscriptions /\ spc = "idle"

\* Concurrent publishing to a fixed set of subscriptions on a broker that
\* stays Running: the subscriptions are made first, then all the producers
\* publish while all the workers drain the queue.
ExactlyOnceNext ==
    \/ Startup(MaxThreads)
    \/ Subscriber(MaxSubscriptions)
    \/ /\ SubscriptionsFixed
       /\ \E p \in Producers : Producer(p, MaxMessages)
    \/ \E w \in Workers : Worker(w)

ExactlyOnceSpec == Init /\ [][ExactlyOnceNext]_vars

\* A callback that calls Broker::publish: the steps of publish taken on
\* worker thread w while it runs the callback.
CallbackPublish(w, budget) ==
    /\ wpc[w] = "callback"
    /\ Producer(WorkerCaller[w], budget)

\* Callbacks that call back into the broker, on a broker that stays
\* Running: one producer, the subscriptions, and all the workers, whose
\* callbacks publish and unsubscribe their own subscription.
ReentrantNext ==
    \/ Startup(MaxThreads)
    \/ Subscriber(MaxDispatchSubscriptions)
    \/ Producer("p1", MaxDispatched)
    \/ \E w \in Workers :
           \/ Worker(w)
           \/ CallbackUnsubscribe(w)
           \/ CallbackPublish(w, MaxDispatched)

ReentrantSpec == Init /\ [][ReentrantNext]_vars

\* Draining the queue on a broker that stays Running: one producer, the
\* subscriptions and all the workers.
DrainNext ==
    \/ Startup(MaxThreads)
    \/ Subscriber(MaxDispatchSubscriptions)
    \/ Producer("p1", MaxDispatched)
    \/ \E w \in Workers : Worker(w)

\* The scheduler lets every thread that can take a step take it, and a
\* thread waiting for queue_mutex_ eventually gets it. A worker in a callback
\* is not obliged to leave it (see CallbacksReturn), nothing obliges a caller
\* to call, nor the condition variable to wake a thread without notification.
DrainFairness ==
    /\ WF_vars(PublishIncrement("p1"))
    /\ SF_vars(\E priority \in Priorities : PublishEnqueue("p1", priority))
    /\ WF_vars(PublishNotify("p1"))
    /\ WF_vars(PublishReturn("p1"))
    /\ \A w \in Workers :
           /\ WF_vars(WorkerLoop(w))
           /\ SF_vars(WorkerWait(w))
           /\ WF_vars(WorkerBlock(w))
           /\ WF_vars(WorkerSnapshot(w))
           /\ WF_vars(\E s \in wsnap[w] : WorkerDeliverTest(w, s))
           /\ WF_vars(WorkerDeliverIncrement(w))

\* The callbacks run by the workers of ws return or throw: none blocks
\* forever.
CallbacksReturn(ws) ==
    \A w \in ws : WF_vars(\E throws \in BOOLEAN : WorkerCallback(w, throws))

\* The worker whose callback may block forever.
BlockedWorker == 1

\* Draining a queue that may be bounded.
BlockingNext ==
    \/ StartupWith(MaxThreads, QueueSizes)
    \/ Subscriber(MaxDispatchSubscriptions)
    \/ Producer("p1", MaxDispatched)
    \/ \E w \in Workers : Worker(w)

\* Fair scheduling with a callback that may never return on one worker.
BlockingSpec ==
    /\ Init
    /\ [][BlockingNext]_vars
    /\ DrainFairness
    /\ CallbacksReturn(Workers \ {BlockedWorker})

\* Fair scheduling with callbacks that all return or throw.
FairDrainSpec ==
    /\ Init
    /\ [][DrainNext]_vars
    /\ DrainFairness
    /\ CallbacksReturn(Workers)

\* Topic filters at work: on a broker with one worker, one subscription is
\* made with any pattern of FilterPatterns, then one message is published to
\* any topic of FilterTopics and dispatched.
FilterNext ==
    \/ Startup(1)
    \/ /\ next_id = 0
       /\ \E pattern \in FilterPatterns : SubscribeCall(pattern, 0)
    \/ SubscribeStore
    \/ ClientReturn
    \/ /\ subscriptions # {}
       /\ spc = "idle"
       /\ published + Cardinality(BeforeIncrement) = 0
       /\ \E topic \in FilterTopics : PublishCall("p1", topic, topic)
    \/ PublishIncrement("p1")
    \/ \E priority \in Priorities : PublishEnqueue("p1", priority)
    \/ PublishNotify("p1")
    \/ PublishReturn("p1")
    \/ \E w \in Workers : Worker(w)

FilterSpec == Init /\ [][FilterNext]_vars

\* The deliver calls on a handle that got past the three tests.
DirectDeliveries ==
    BagCardinality(direct) + (IF spc \in {"deliver_inc", "callback"} THEN 1 ELSE 0)

\* The client thread delivering messages of any topic to the handles
\* subscribe returned to it, at any time; at most budget deliver calls get
\* past the three tests.
HandleDeliveries(budget) ==
    \/ /\ DirectDeliveries < budget
       /\ \E s \in Created, topic \in Topics : DeliverCall(s, topic)
    \/ DeliverCallIncrement
    \/ \E throws \in BOOLEAN : DeliverCallCallback(throws)

\* The client thread using its handles: it cancels them and delivers to
\* them.
Holder(budget) ==
    \/ \E s \in Created : CancelCall(s)
    \/ HandleDeliveries(budget)

\* Subscriptions used through the broker and through their handles: the
\* lifecycle thread, one producer, one worker, and the client thread, which
\* subscribes, unsubscribes, cancels and delivers.
HandleNext ==
    \/ Lifecycle(1, {0})
    \/ Producer("p1", MaxPublished)
    \/ Client(MaxDispatchSubscriptions)
    \/ Holder(MaxDirect)
    \/ \E w \in Workers : Worker(w)

HandleSpec == Init /\ [][HandleNext]_vars

\* The delivered counter at work: the lifecycle thread, one producer, all the
\* workers, and the client thread, which subscribes and delivers on its
\* handles.
DeliveredNext ==
    \/ Lifecycle(MaxThreads, {0})
    \/ Producer("p1", MaxDispatched)
    \/ Subscriber(MaxDispatchSubscriptions)
    \/ HandleDeliveries(MaxCountedDirect)
    \/ \E w \in Workers : Worker(w)

DeliveredSpec == Init /\ [][DeliveredNext]_vars

\* The order of delivery: a Running broker with one worker, all the
\* producers publishing to a subscription that is made at any time.
OrderNext ==
    \/ Startup(1)
    \/ Subscriber(MaxDispatchSubscriptions)
    \/ \E p \in Producers : Producer(p, MaxOrdered)
    \/ \E w \in Workers : Worker(w)

OrderSpec == Init /\ [][OrderNext]_vars

\* A producer whose publish calls pass any topic_str with any message: the
\* argument and message->topic() may differ.
ProducerAnyTopic(p, budget) ==
    \/ /\ running => published + Cardinality(BeforeIncrement) < budget
       /\ \E topic_str \in Topics, topic \in Topics :
              PublishCall(p, topic_str, topic)
    \/ PublishIncrement(p)
    \/ \E priority \in Priorities : PublishEnqueue(p, priority)
    \/ PublishNotify(p)
    \/ PublishReturn(p)

\* Routing: a Running broker with one worker, subscriptions made at any
\* time, and messages published under a topic argument of any value.
RouteNext ==
    \/ Startup(1)
    \/ Subscriber(MaxSubscriptions)
    \/ ProducerAnyTopic("p1", MaxDispatched)
    \/ \E w \in Workers : Worker(w)

RouteSpec == Init /\ [][RouteNext]_vars

(* ------------------------------ claims --------------------------------- *)

\* Every publish call made so far has returned.
ProducersAtRest == \A p \in Producers : ppc[p] \in {"idle", "returned"}

\* C1: whenever max_queue_size = K > 0, the queue never holds more than K
\* messages. (Violated: shutdown leaves messages on the queue, and a later
\* initialize with a smaller max_queue_size finds more than K of them.)
C1_QueueNeverExceedsCapacity ==
    (running /\ config.max_queue_size > 0)
        => Len(queue) <= config.max_queue_size

\* C2: a publish that passed the Running test returns false if and only if
\* the queue is bounded and holds max_queue_size messages (or more) at its
\* enqueue attempt, whatever the priority of the message; a refused publish
\* leaves the queue as it was and an accepted one appends its message, so
\* that N > K publishes onto an empty queue of capacity K with no dequeue in
\* between give K times true and then N - K times false.
C2_RejectedIffQueueFull ==
    [][\A p \in Producers :
          /\ (ppc[p] = "enqueue" /\ ppc'[p] # "enqueue") =>
                LET full == /\ config.max_queue_size > 0
                            /\ Len(queue) >= config.max_queue_size
                IN  /\ full <=> (ppc'[p] = "returned" /\ pret'[p] = "false")
                    /\ full => queue' = queue
                    /\ ~full => /\ queue' = Append(queue, pmsg[p])
                                /\ ppc'[p] = "notify"
          /\ (ppc[p] = "notify" /\ ppc'[p] # "notify") =>
                /\ ppc'[p] = "returned"
                /\ pret'[p] = "true"
                /\ queue' = queue
      ]_vars

\* C2, witness: a Critical message has just been refused by a full queue of
\* capacity K that holds K messages.
C2_Witness ==
    \E p \in Producers :
        /\ ppc[p] = "returned"
        /\ pret[p] = "false"
        /\ pprio[p] = PriorityCritical
        /\ config.max_queue_size > 0
        /\ Len(queue) = config.max_queue_size

\* C3 as stated: once every publish call has returned, published_messages
\* equals the number of calls that returned true.
C3_PublishedCountsOnlySuccesses ==
    ProducersAtRest => published = accepted

\* C3 as amended: once every publish call has returned, published_messages
\* equals the number of calls that returned true plus the number of calls
\* refused because the bounded queue was full.
C3_PublishedCountsAcceptedAndRefused ==
    ProducersAtRest => published = accepted + rejected

\* C3, witness: all calls have returned, some accepted and some refused by
\* the full queue.
C3_Witness ==
    /\ ProducersAtRest
    /\ accepted > 0
    /\ rejected > 0

\* C4: publish on a broker that is not Running returns false and leaves the
\* queue, the published counter and both registries as they were.
C4_PublishWhenStoppedChangesNothing ==
    [][\A p \in Producers :
          (ppc[p] = "idle" /\ ppc'[p] # "idle" /\ ~running) =>
              /\ ppc'[p] = "returned"
              /\ pret'[p] = "false"
              /\ UNCHANGED << queue, published, delivered, topics,
                              subscriptions, subs, running, config >>
      ]_vars

\* C4, witness: publish has returned false on a Stopped broker whose queue
\* and subscription registry are not empty.
C4_Witness ==
    \E p \in Producers :
        /\ ppc[p] = "returned"
        /\ pret[p] = "false"
        /\ ~running
        /\ rejected = 0
        /\ queue # << >>
        /\ subscriptions # {}

\* C5: subscribe on a broker that is not Running throws, returns no handle
\* and leaves the subscription registry (and the id counter) as they were.
C5_SubscribeWhenStoppedThrows ==
    [][(/\ spc = "idle"
        /\ spc' # "idle"
        /\ sret' \notin {"unsub_true", "unsub_false"}
        /\ ~running) =>
            /\ spc' = "returned"
            /\ sret' = "throw"
            /\ sarg' = NullSub
            /\ UNCHANGED << subscriptions, subs, next_id >>
      ]_vars

\* C5, witness: subscribe has thrown on a Stopped broker whose registry is
\* not empty.
C5_Witness ==
    /\ spc = "returned"
    /\ sret = "throw"
    /\ ~running
    /\ subscriptions # {}

\* C6: initialize on a Stopped broker returns true, marks the broker
\* Running and spawns exactly thread_count workers; initialize on a Running
\* broker returns false and leaves the configuration, the Running state and
\* the workers as they were.
C6_InitializeContract ==
    [][(cpc = "idle" /\ cret' \in {"init_true", "init_false"}) =>
          /\ cret' = "init_true" <=> ~running
          /\ cret' = "init_true" =>
                /\ running'
                /\ config'.thread_count > 0
                /\ Cardinality({w \in Workers : wpc'[w] # None})
                       = config'.thread_count
                /\ \A w \in Workers : wpc'[w] \in {None, "loop"}
          /\ cret' = "init_false" =>
                /\ running'
                /\ UNCHANGED << config, wpc >>
      ]_vars

\* C6, witness: initialize has returned false on a broker that runs with
\* two workers.
C6_Witness ==
    /\ cpc = "returned"
    /\ cret = "init_false"
    /\ running
    /\ config.thread_count = 2
    /\ WorkerCount = 2

\* C7: when shutdown returns on a Running broker, the broker is Stopped,
\* has no workers and both registries are empty; shutdown on a Stopped broker
\* changes no state; initialize on a Stopped broker, also one that was shut
\* down before, returns true and makes it Running.
C7_ShutdownContract ==
    [][/\ (cpc = "sd_clear" /\ cpc' # "sd_clear") =>
              /\ cret' = "shutdown_done"
              /\ ~running'
              /\ \A w \in Workers : wpc'[w] = None
              /\ topics' = {}
              /\ subscriptions' = {}
       /\ (cpc = "idle" /\ cret' = "shutdown_noop") =>
              /\ ~running
              /\ UNCHANGED << brokerVars, subVars, workerVars, producerVars,
                              clientVars >>
       /\ (cpc = "idle" /\ ~running /\ cret' \in {"init_true", "init_false"})
              => (cret' = "init_true" /\ running')
      ]_vars

\* C7, witness: shutdown has returned and has removed from the registry a
\* subscription that was never unsubscribed.
C7_Witness ==
    /\ cpc = "returned"
    /\ cret = "shutdown_done"
    /\ spc = "idle"
    /\ subscriptions = {}
    /\ \E s \in Created : subs[s].active

\* C8: once shutdown has marked the broker Stopped, it returns (every worker
\* observes the stop signal and exits, so the join completes).
C8_ShutdownTerminates == (cpc = "sd_notify") ~> (cpc = "returned")

\* C9: when shutdown returns, the message queue is empty.
C9_QueueEmptyAfterShutdown ==
    [][(cpc = "sd_clear" /\ cpc' = "returned") => queue' = << >>]_vars

\* C10: unsubscribe(s) returns false and changes nothing when s is not in
\* the registry (the null handle and an s unsubscribed before included);
\* otherwise it returns true, s is inactive and out of the registry, and
\* every other subscription, registered or not, is as it was.
C10_UnsubscribeContract ==
    [][(spc = "idle" /\ sret' \in {"unsub_true", "unsub_false"}) =>
          LET s == sarg'
          IN  /\ sret' = "unsub_false" <=> (s = NullSub \/ s \notin subscriptions)
              /\ sret' = "unsub_false" => UNCHANGED << subscriptions, subs >>
              /\ sret' = "unsub_true" =>
                    /\ ~subs'[s].active
                    /\ subscriptions' = subscriptions \ {s}
                    /\ subs' = [subs EXCEPT ![s].active = FALSE]
      ]_vars

\* C10, witness: unsubscribe has returned true for one subscription while
\* another one is still registered and active.
C10_Witness ==
    /\ spc = "returned"
    /\ sret = "unsub_true"
    /\ \E o \in subscriptions : o # sarg /\ subs[o].active

\* The callback of s is invoked in this step (a new entry of the history).
InvokedNow(s) ==
    \E e \in BagToSet(invoked') :
        /\ e.sub = s
        /\ CopiesIn(e, invoked') > CopiesIn(e, invoked)

\* Message m has been dequeued and its matching subscriptions collected.
Dispatched(m) ==
    /\ \A k \in 1..Len(queue) : queue[k] # m
    /\ \A w \in Workers : ~(wpc[w] = "process" /\ wmsg[w] = m)

\* C11 as stated: once unsubscribe(s) has returned true, the callback of s
\* is not invoked for any message published afterwards, and the message
\* count of s does not increase any more.
C11_NothingAfterUnsubscribe ==
    [][\A s \in DOMAIN unsubscribed_at :
          /\ subs'[s].message_count = subs[s].message_count
          /\ InvokedNow(s) =>
                \E w \in Workers :
                    /\ wsub[w] = s
                    /\ wmsg[w].id <= unsubscribed_at[s]
      ]_vars

\* C11 as amended: once unsubscribe(s) has returned true, s is out of the
\* registry for good and no deliver call passes the active test of s; the
\* callback of s is invoked, and its message count incremented, only by a
\* deliver call that had passed the active test before the cancellation,
\* for a message published before unsubscribe returned. No publish call
\* made afterwards reaches the callback or the counter.
C11_OnlyInFlightDeliveriesAfterUnsubscribe ==
    [][\A s \in DOMAIN unsubscribed_at :
          /\ s \notin subscriptions'
          /\ \A w \in Workers :
                (wpc[w] = "deliver" /\ wpc'[w] = "deliver_inc") => wsub'[w] # s
          /\ (subs'[s].message_count # subs[s].message_count \/ InvokedNow(s)) =>
                \E w \in Workers :
                    /\ wsub[w] = s
                    /\ wpc[w] \in {"deliver_inc", "callback"}
                    /\ wpc'[w] # wpc[w]
                    /\ wmsg[w].id <= unsubscribed_at[s]
      ]_vars

\* C11, witness: s received a message, was unsubscribed, and a message
\* published after that, to a topic the filter of s matches, has been
\* dispatched.
C11_Witness ==
    \E s \in DOMAIN unsubscribed_at :
        /\ subs[s].message_count > 0
        /\ \E m \in sent :
              /\ m.id > unsubscribed_at[s]
              /\ SubscriptionMatches(s, m.topic)
              /\ Dispatched(m)

\* The number of times the callback of s has been invoked.
Invocations(s) ==
    BagCardinality([e \in {x \in BagToSet(invoked) : x.sub = s} |->
                       CopiesIn(e, invoked)])

\* C12: a subscription with max_messages = m > 0 never has a message count
\* above m and its callback is never invoked more than m times, also when
\* several workers deliver to it at the same time. (Violated: the test of
\* the count and its increment are two separate atomic operations.)
C12_MessageCountCapped ==
    \A s \in Created :
        subs[s].max_messages > 0 =>
            /\ subs[s].message_count <= subs[s].max_messages
            /\ Invocations(s) <= subs[s].max_messages

\* C13: when a callback returns or throws, deliver reports it for that
\* subscription only (Error exactly when it threw, and then the delivered
\* counter is not incremented), no subscription and no other worker is
\* affected, and the worker goes on with the other subscriptions of its
\* snapshot for the same message, or with its loop: it never ends.
C13_FaultIsolated ==
    [][\A w \in Workers :
          (wpc[w] = "callback" /\ wpc'[w] # "callback") =>
              LET s == wsub[w]
                  rest == wsnap[w] \ {s}
                  result == IF delivered' = delivered THEN "Error"
                            ELSE "Success"
              IN  /\ delivered' \in {delivered, delivered + 1}
                  /\ invoked' = invoked (+)
                        SetToBag({[sub |-> s, id |-> wmsg[w].id,
                                   result |-> result]})
                  /\ wsnap'[w] = rest
                  /\ wpc'[w] = IF rest = {} THEN "loop" ELSE "deliver"
                  /\ rest # {} => wmsg'[w] = wmsg[w]
                  /\ \A o \in Workers \ {w} :
                        /\ wpc'[o] = wpc[o]
                        /\ wsnap'[o] = wsnap[o]
                        /\ wmsg'[o] = wmsg[o]
                  /\ UNCHANGED << subs, subscriptions, queue, running >>
      ]_vars

\* C13, witness: for one message, the callback of one subscription has
\* thrown and the callback of another subscription of the same snapshot is
\* running.
C13_Witness ==
    \E w \in Workers :
        /\ wpc[w] = "callback"
        /\ \E e \in BagToSet(invoked) :
              /\ e.id = wmsg[w].id
              /\ e.sub # wsub[w]
              /\ e.result = "Error"

\* The number of times the callback of s has been invoked with message m.
InvocationsOf(s, m) ==
    CopiesIn([sub |-> s, id |-> m.id, result |-> "Success"], invoked)
        + CopiesIn([sub |-> s, id |-> m.id, result |-> "Error"], invoked)

\* Every accepted message has been drained: all publish calls have
\* returned, the queue is empty and no worker holds a message.
Drained ==
    /\ ProducersAtRest
    /\ queue = << >>
    /\ \A w \in Workers : wmsg[w] = NullMessage

\* C14: with a fixed set of subscriptions without max_messages on a broker
\* that stays Running, once the accepted messages of all the producers are
\* drained by the workers, the callback of each subscription has been
\* invoked exactly once for every accepted message whose topic its filter
\* matches and never for another message, and the message counts add up to
\* the number of (message, matching subscription) pairs.
C14_ExactlyOnce ==
    (SubscriptionsFixed /\ Drained) =>
        /\ \A s \in subscriptions :
              /\ \A m \in sent :
                    InvocationsOf(s, m) =
                        IF SubscriptionMatches(s, m.topic) THEN 1 ELSE 0
              /\ subs[s].message_count =
                    Cardinality({m \in sent : SubscriptionMatches(s, m.topic)})
        /\ \A e \in BagToSet(invoked) :
              /\ e.sub \in subscriptions
              /\ \E m \in sent : m.id = e.id
        /\ Cardinality(sent) = accepted

\* C14, witness: on a broker with two workers, two accepted messages have
\* been drained, one subscription matching both of them and another one
\* none.
C14_Witness ==
    /\ SubscriptionsFixed
    /\ Drained
    /\ Cardinality(sent) = MaxMessages
    /\ WorkerCount = MaxThreads
    /\ \E s \in subscriptions : subs[s].message_count = MaxMessages
    /\ \E s \in subscriptions : subs[s].message_count = 0

MessageIds == 1..MaxDispatched

\* The message with ticket i is on the queue.
Queued(i) == \E k \in 1..Len(queue) : queue[k].id = i

\* The message with ticket i has been dequeued by a worker that has collected
\* its matching subscriptions.
DispatchedId(i) ==
    /\ ~Queued(i)
    /\ \A w \in Workers : ~(wpc[w] = "process" /\ wmsg[w].id = i)

\* C16: whether or not the callback run by one worker ever returns, every
\* publish call that passed the Running test returns, with false only if
\* the bounded queue is full, and when the broker has another worker every
\* queued message is dequeued and dispatched.
C16_BlockedCallbackStallsOneWorker ==
    /\ (ppc["p1"] = "inc") ~>
          /\ ppc["p1"] = "returned"
          /\ pret["p1"] = "false" =>
                (config.max_queue_size > 0
                    /\ Len(queue) >= config.max_queue_size)
    /\ \A i \in MessageIds :
          (Queued(i) /\ WorkerCount > 1) ~> DispatchedId(i)

\* C16, witness: while one worker is inside a callback, a message published
\* later has been dispatched by another worker, and the publish call has
\* returned true.
C16_Witness ==
    /\ wpc[BlockedWorker] = "callback"
    /\ \E m \in sent :
          /\ m.id > wmsg[BlockedWorker].id
          /\ Dispatched(m)
    /\ ppc["p1"] = "returned"
    /\ pret["p1"] = "true"

\* C17: on a broker that stays Running, under fair scheduling and with
\* callbacks that return or throw, every message put on the queue is
\* eventually dequeued by a worker and dispatched.
C17_AcceptedMessagesAreDispatched ==
    \A i \in MessageIds : Queued(i) ~> DispatchedId(i)

\* C17, witness: a callback has thrown for an earlier message and a later
\* message, accepted by publish, has been dispatched.
C17_Witness ==
    \E e \in BagToSet(invoked) :
        /\ e.result = "Error"
        /\ \E m \in sent :
              /\ m.id > e.id
              /\ Dispatched(m)

\* Worker w collects the matching subscriptions of its message in this step.
SnapshotStep(w) == wpc[w] = "process" /\ wpc'[w] # "process"

\* C18: a filter built from a pattern with neither '+' nor '#' matches a
\* topic if and only if the topic equals the pattern character for
\* character; the empty pattern matches the empty topic only.
C18_ExactFilterIsEquality ==
    [][\A w \in Workers :
          SnapshotStep(w) =>
              \A s \in subscriptions :
                  (~Contains(subs[s].pattern, "+")
                      /\ ~Contains(subs[s].pattern, "#")) =>
                      (s \in wsnap'[w] <=> subs[s].pattern = wmsg[w].topic)
      ]_vars

\* C18, witness: a worker delivers a message to a subscription whose
\* pattern has no wildcard and holds a regex metacharacter, having matched
\* the topic equal to the pattern.
C18_Witness ==
    \E w \in Workers :
        /\ wpc[w] = "deliver"
        /\ \E s \in wsnap[w] :
              /\ ~Contains(subs[s].pattern, "+")
              /\ ~Contains(subs[s].pattern, "#")
              /\ Contains(subs[s].pattern, "|")

\* The '/'-separated segments of a topic or of a pattern (cur is the
\* segment being read).
RECURSIVE SegmentsFrom(_, _, _)
SegmentsFrom(s, i, cur) ==
    IF i > Len(s) THEN <<cur>>
    ELSE IF s[i] = "/" THEN <<cur>> \o SegmentsFrom(s, i + 1, << >>)
    ELSE SegmentsFrom(s, i + 1, Append(cur, s[i]))

Segments(s) == SegmentsFrom(s, 1, << >>)

\* A pattern made of literal segments and '+' segments, with one '+' at
\* least.
IsPlusPattern(pattern) ==
    /\ Contains(pattern, "+")
    /\ ~Contains(pattern, "#")
    /\ \A k \in 1..Len(Segments(pattern)) :
          \/ Segments(pattern)[k] = <<"+">>
          \/ ~Contains(Segments(pattern)[k], "+")

\* The MQTT reading of such a pattern: as many segments in the topic as in
\* the pattern, a non-empty segment for each '+', the same segment for each
\* literal.
PlusPatternMatches(pattern, topic) ==
    /\ Len(Segments(pattern)) = Len(Segments(topic))
    /\ \A k \in 1..Len(Segments(pattern)) :
          IF Segments(pattern)[k] = <<"+">>
          THEN Segments(topic)[k] # << >>
          ELSE Segments(topic)[k] = Segments(pattern)[k]

\* C19: for a pattern made of literal and '+' segments, a topic matches if
\* and only if it has as many segments as the pattern, each '+' standing for
\* one non-empty segment and each literal segment for itself. (Violated: a
\* '|' in a literal segment is an alternation of the compiled expression.)
C19_PlusMatchesOneSegment ==
    [][\A w \in Workers :
          SnapshotStep(w) =>
              \A s \in subscriptions :
                  IsPlusPattern(subs[s].pattern) =>
                      (s \in wsnap'[w] <=>
                          PlusPatternMatches(subs[s].pattern, wmsg[w].topic))
      ]_vars

\* C19 for the patterns without '|'.
C19_PlusMatchesOneSegmentWithoutBar ==
    [][\A w \in Workers :
          SnapshotStep(w) =>
              \A s \in subscriptions :
                  (IsPlusPattern(subs[s].pattern)
                      /\ ~Contains(subs[s].pattern, "|")) =>
                      (s \in wsnap'[w] <=>
                          PlusPatternMatches(subs[s].pattern, wmsg[w].topic))
      ]_vars

\* The patterns C20 names.
HashPatterns == { <<"#">>, <<"a", "/", "#">> }

\* Is prefix the beginning of topic
StartsWith(topic, prefix) ==
    /\ Len(prefix) <= Len(topic)
    /\ SubSeq(topic, 1, Len(prefix)) = prefix

\* C20: the pattern # matches every topic, and the pattern a/# matches
\* exactly the topics that start with a/, whatever follows. (Violated: the
\* '.' of the compiled expression does not match a line terminator.)
C20_HashMatchesRemainder ==
    [][\A w \in Workers :
          SnapshotStep(w) =>
              \A s \in subscriptions :
                  subs[s].pattern \in HashPatterns =>
                      (s \in wsnap'[w] <=>
                          StartsWith(wmsg[w].topic,
                                     SubSeq(subs[s].pattern, 1,
                                            Len(subs[s].pattern) - 1)))
      ]_vars

\* C20 for the topics without a line terminator.
C20_HashMatchesRemainderOfOneLine ==
    [][\A w \in Workers :
          SnapshotStep(w) =>
              \A s \in subscriptions :
                  (subs[s].pattern \in HashPatterns
                      /\ \A k \in 1..Len(wmsg[w].topic) :
                            wmsg[w].topic[k] \notin LineTerminators) =>
                      (s \in wsnap'[w] <=>
                          StartsWith(wmsg[w].topic,
                                     SubSeq(subs[s].pattern, 1,
                                            Len(subs[s].pattern) - 1)))
      ]_vars

\* The client's call that returns in this step is a cancel() or a successful
\* unsubscribe of subscription s.
CancelledNow(s) ==
    /\ spc = "idle"
    /\ spc' = "returned"
    /\ sarg' = s
    /\ sret' \in {"cancelled", "unsub_true"}

\* C21: a subscription is created active; its active flag is cleared by
\* cancel() and by a successful unsubscribe and by nothing else; and once
\* cleared it is never set again, whatever runs afterwards (deliver, another
\* cancel, shutdown, initialize).
C21_ActiveIsTerminal ==
    [][/\ \A s \in DOMAIN subs' \ DOMAIN subs : subs'[s].active
       /\ \A s \in DOMAIN subs :
             /\ s \in DOMAIN subs'
             /\ ~subs[s].active => ~subs'[s].active
             /\ CancelledNow(s) => ~subs'[s].active
             /\ (subs[s].active /\ ~subs'[s].active) => CancelledNow(s)
      ]_vars

\* C21, witness: a subscription cancelled with cancel() (it was never
\* unsubscribed, and shutdown has cleared it from the registry) is still
\* inactive after the broker was initialized again, and a deliver on it has
\* just been rejected.
C21_Witness ==
    /\ running
    /\ cret = "init_true"
    /\ spc = "returned"
    /\ sret = "Rejected"
    /\ ~subs[sarg].active
    /\ sarg \notin subscriptions
    /\ sarg \notin DOMAIN unsubscribed_at

\* The limit of subscription s is reached.
MaxMessagesReached(s) ==
    subs[s].max_messages > 0 /\ subs[s].message_count >= subs[s].max_messages

\* The client's deliver call makes its tests in this step.
DeliverCallTests == spc = "idle" /\ smsg' # NullMessage

\* Worker w's deliver call on subscription s makes its tests in this step.
WorkerDeliverTests(w, s) ==
    /\ wpc[w] = "deliver"
    /\ \/ wsub'[w] = s
       \/ s \in wsnap[w] \ wsnap'[w]

\* No callback is invoked and no counter changes in this step.
NoDelivery ==
    /\ subs' = subs
    /\ invoked' = invoked
    /\ direct' = direct
    /\ delivered' = delivered

\* C22: a deliver call that returns Rejected or Filtered invokes no callback
\* and changes no counter, and the tests are made in the order inactive
\* (Rejected), topic mismatch (Filtered), max_messages reached (Rejected), all
\* other calls going on to the callback: a deliver on an inactive
\* subscription is Rejected whatever the topic and the count.
C22_RejectedAndFilteredLeaveNoTrace ==
    [][/\ DeliverCallTests =>
             LET s == sarg'
                 matches == FilterMatches(subs[s].pattern, smsg'.topic)
             IN  /\ NoDelivery
                 /\ IF ~subs[s].active
                    THEN spc' = "returned" /\ sret' = "Rejected"
                    ELSE IF ~matches
                    THEN spc' = "returned" /\ sret' = "Filtered"
                    ELSE IF MaxMessagesReached(s)
                    THEN spc' = "returned" /\ sret' = "Rejected"
                    ELSE spc' = "deliver_inc"
       /\ \A w \in Workers, s \in DOMAIN subs :
             WorkerDeliverTests(w, s) =>
                 /\ NoDelivery
                 /\ wsub'[w] = s <=>
                       /\ subs[s].active
                       /\ FilterMatches(subs[s].pattern, wmsg[w].topic)
                       /\ ~MaxMessagesReached(s)
      ]_vars

\* C22, witness: a deliver call on a cancelled subscription whose limit is
\* reached, with a topic its filter does not match, has returned Rejected.
C22_Witness ==
    /\ spc = "returned"
    /\ sret = "Rejected"
    /\ ~subs[sarg].active
    /\ ~FilterMatches(subs[sarg].pattern, smsg.topic)
    /\ MaxMessagesReached(sarg)

\* The number of entries of the history bag that are about subscription s
\* and have one of the given results.
Returned(bag, s, results) ==
    BagCardinality([e \in {x \in BagToSet(bag) :
                              x.sub = s /\ x.result \in results} |->
                       CopiesIn(e, bag)])

\* The number of deliver calls on s, by the workers and on the handle, that
\* have returned one of the given results.
DeliverReturned(s, results) ==
    Returned(invoked, s, results) + Returned(direct, s, results)

\* No deliver call on subscription s is past its tests and yet to return.
NoDeliverInProgress(s) ==
    /\ \A w \in Workers : wsub[w] # s
    /\ ~(spc \in {"deliver_inc", "callback"} /\ sarg = s)

\* C23 as stated: with no deliver in progress, message_count is the number of
\* deliver calls that returned Success, and it never decreases. (Violated:
\* the calls whose callback threw are counted as well.)
C23_MessageCountIsSuccesses ==
    [][\A s \in DOMAIN subs' :
          /\ NoDeliverInProgress(s)' =>
                subs'[s].message_count = DeliverReturned(s, {"Success"})'
          /\ s \in DOMAIN subs =>
                subs'[s].message_count >= subs[s].message_count
      ]_vars

\* C23, amended: with no deliver in progress, message_count is the number of
\* deliver calls that got past the three tests, that is, that returned
\* Success or Error; and it never decreases.
C23_MessageCountIsInvocations ==
    [][\A s \in DOMAIN subs' :
          /\ NoDeliverInProgress(s)' =>
                subs'[s].message_count =
                    DeliverReturned(s, {"Success", "Error"})'
          /\ s \in DOMAIN subs =>
                subs'[s].message_count >= subs[s].message_count
      ]_vars

\* C23, witness: a subscription at rest has had a successful delivery and
\* one whose callback threw, one of them made by a worker and the other on
\* the handle.
C23_Witness ==
    \E s \in DOMAIN subs :
        /\ NoDeliverInProgress(s)
        /\ subs[s].message_count = 2
        /\ DeliverReturned(s, {"Success"}) = 1
        /\ DeliverReturned(s, {"Error"}) = 1
        /\ Returned(invoked, s, {"Success", "Error"}) = 1

\* The number of deliver calls made by the workers that returned Success.
QueuePathSuccesses ==
    BagCardinality([e \in {x \in BagToSet(invoked) : x.result = "Success"} |->
                       CopiesIn(e, invoked)])

\* C24: delivered_messages is the number of deliver calls made by the workers
\* that returned Success: calls that return Error, Rejected or Filtered and
\* deliver calls made on a handle do not count, no increment of concurrent
\* workers is lost, and the counter never decreases, also when the broker is
\* shut down and initialized again.
C24_DeliveredCountsQueuePathSuccesses ==
    [][/\ delivered' = QueuePathSuccesses'
       /\ delivered' >= delivered
      ]_vars

\* C24, witness: the workers have made one delivery that returned Success
\* and one that returned Error, a deliver call on the handle has returned
\* Success, the broker has been shut down (which emptied the registry) and
\* initialized again, and the counter stands at 1.
C24_Witness ==
    /\ delivered = 1
    /\ \E e \in BagToSet(invoked) : e.result = "Error"
    /\ \E s \in DOMAIN subs : Returned(direct, s, {"Success"}) = 1
    /\ cret = "init_true"
    /\ subscriptions = {}
    /\ DOMAIN subs # {}

\* The publish calls that have incremented published_messages_ and have not
\* returned yet.
PastIncrement == {p \in Producers : ppc[p] \in {"enqueue", "notify"}}

\* C25: published_messages is the number of publish calls that passed the
\* running_ test and went on, whether they were then accepted or refused by
\* a full queue: a call that passes the test increments the counter in its
\* next step, before it touches the queue, and the queue-full test, made
\* afterwards, leaves the counter as it is.
C25_PublishedCountsBeforeEnqueue ==
    [][/\ published' =
             accepted' + rejected' + Cardinality(PastIncrement')
       /\ \A p \in Producers :
             /\ (ppc[p] = "idle" /\ ppc'[p] = "inc") =>
                   running /\ published' = published
             /\ (ppc[p] = "inc" /\ ppc'[p] # "inc") =>
                   /\ ppc'[p] = "enqueue"
                   /\ published' = published + 1
                   /\ queue' = queue
             /\ (ppc[p] = "enqueue" /\ ppc'[p] # "enqueue") =>
                   /\ pmsg[p].id \in 1..published
                   /\ published' = published
      ]_vars

\* C25, witness: on a Running broker a publish call has just been refused by
\* the full queue, after another was accepted, and the counter has counted
\* both.
C25_Witness ==
    /\ running
    /\ \E p \in Producers :
          /\ ppc[p] = "returned"
          /\ pret[p] = "false"
          /\ pmsg[p].id = published
    /\ accepted = 1
    /\ rejected = 1
    /\ published = 2

\* The place of message i in the order in which the publish calls pushed
\* their messages on the queue.
EnqueuePosition(i) == CHOOSE k \in 1..Len(enqueued) : enqueued[k] = i

\* C26: the queue is first in, first out (a publish call appends at the
\* back, a worker takes the front), and with exactly one worker every
\* subscription's callback is invoked with the messages it receives in the
\* order in which their publish calls put them on the queue.
C26_OneWorkerDeliversInEnqueueOrder ==
    [][/\ Len(queue') > Len(queue) =>
             /\ queue' = Append(queue, queue'[Len(queue')])
             /\ enqueued' = Append(enqueued, queue'[Len(queue')].id)
       /\ Len(queue') < Len(queue) =>
             /\ queue' = Tail(queue)
             /\ \E w \in Workers : wmsg'[w] = Head(queue)
       /\ WorkerCount = 1 =>
             \A s \in DOMAIN subs :
                 InvokedNow(s) =>
                     \A e \in BagToSet(invoked), w \in Workers :
                         (e.sub = s /\ wsub[w] = s) =>
                             EnqueuePosition(e.id) <
                                 EnqueuePosition(wmsg[w].id)
      ]_vars

\* C26, witness: the message with the second ticket was put on the queue
\* before the message with the first, and a subscription has received both.
C26_Witness ==
    /\ Len(enqueued) >= 2
    /\ enqueued[1] > enqueued[2]
    /\ \E s \in DOMAIN subs :
          /\ \E e \in BagToSet(invoked) : e.sub = s /\ e.id = enqueued[1]
          /\ \E e \in BagToSet(invoked) : e.sub = s /\ e.id = enqueued[2]

\* A wildcard pattern read with every character other than '+' and '#'
\* standing for itself, '+' for what [^/]+ matches and '#' for what .*
\* matches: does the pattern from position i match the topic from position j
\* up to its end.
RECURSIVE LiteralMatchFrom(_, _, _, _)
LiteralMatchFrom(pattern, i, topic, j) ==
    IF i > Len(pattern) THEN j > Len(topic)
    ELSE IF pattern[i] = "+" THEN
        \E k \in 1..(Len(topic) - j + 1) :
            /\ \A m \in j..(j + k - 1) : topic[m] # "/"
            /\ LiteralMatchFrom(pattern, i + 1, topic, j + k)
    ELSE IF pattern[i] = "#" THEN
        \E k \in 0..(Len(topic) - j + 1) :
            /\ \A m \in j..(j + k - 1) : topic[m] \notin LineTerminators
            /\ LiteralMatchFrom(pattern, i + 1, topic, j + k)
    ELSE
        /\ j <= Len(topic)
        /\ topic[j] = pattern[i]
        /\ LiteralMatchFrom(pattern, i + 1, topic, j + 1)

\* The pattern a|b/+ and the literal text it starts with.
BarPattern == <<"a", "|", "b", "/", "+">>

BarPrefix == <<"a", "|", "b", "/">>

\* C27: in a pattern with a wildcard every character other than '+' and '#'
\* matches the identical character of the topic and nothing else, so that
\* the pattern a|b/+ matches only topics that start with a|b/. (Violated:
\* wildcardToRegex does not escape '|'.)
C27_OtherCharactersAreLiteral ==
    [][\A w \in Workers :
          SnapshotStep(w) =>
              \A s \in subscriptions :
                  has_wildcards(subs[s].pattern) =>
                      /\ s \in wsnap'[w] <=>
                            LiteralMatchFrom(subs[s].pattern, 1,
                                             wmsg[w].topic, 1)
                      /\ (subs[s].pattern = BarPattern /\ s \in wsnap'[w])
                            => StartsWith(wmsg[w].topic, BarPrefix)
      ]_vars

\* C27 for the patterns without '|': the characters wildcardToRegex escapes
\* and those that mean nothing to the regular expression are literal.
C27_OtherCharactersAreLiteralWithoutBar ==
    [][\A w \in Workers :
          SnapshotStep(w) =>
              \A s \in subscriptions :
                  (has_wildcards(subs[s].pattern)
                      /\ ~Contains(subs[s].pattern, "|")) =>
                      (s \in wsnap'[w] <=>
                          LiteralMatchFrom(subs[s].pattern, 1,
                                           wmsg[w].topic, 1))
      ]_vars

\* Every worker thread has returned from worker_thread.
WorkersGone == \A w \in Workers : wpc[w] \in {None, "exited"}

\* C28: a publish call that goes on to return true puts its message on the
\* queue while the broker is Running, never on the queue of a Stopped
\* broker whose workers have all exited. (Violated: publish tests running_
\* once, before it takes queue_mutex_, and a whole shutdown fits in between.)
C28_AcceptedOnlyWhileRunning ==
    [][\A p \in Producers :
          (ppc[p] = "enqueue" /\ ppc'[p] = "notify") =>
              /\ running
              /\ ~WorkersGone
      ]_vars

\* The subscriptions that subscribe has stored in the registry at some time.
Registered == {s \in Created : ~(spc = "store" /\ sarg = s)}

\* C29: a subscription that was registered and is no longer in the registry
\* is inactive, whether unsubscribe or shutdown removed it, and a deliver
\* call made on its handle returns Rejected. (Violated: shutdown clears the
\* registry without cancelling the subscriptions.)
C29_RemovedSubscriptionsAreInactive ==
    [][\A s \in Registered \ subscriptions :
          /\ ~subs[s].active
          /\ (DeliverCallTests /\ sarg' = s) =>
                (spc' = "returned" /\ sret' = "Rejected")
      ]_vars

\* C29 as the code has it: a subscription that unsubscribe removed from the
\* registry is inactive and a deliver call made on its handle returns
\* Rejected, while the registry clear of shutdown changes no subscription:
\* the ones it removes stay as active as they were.
C29_UnsubscribedSubscriptionsAreInactive ==
    [][/\ \A s \in DOMAIN unsubscribed_at :
             /\ s \notin subscriptions
             /\ ~subs[s].active
             /\ (DeliverCallTests /\ sarg' = s) =>
                   (spc' = "returned" /\ sret' = "Rejected")
       /\ (cpc = "sd_clear" /\ cpc' = "returned") =>
             (subscriptions' = {} /\ subs' = subs)
      ]_vars

\* A deliver call on the handle of an unsubscribed subscription, with a topic
\* its filter matches, has returned Rejected.
C29_Witness ==
    \E s \in DOMAIN unsubscribed_at :
        /\ spc = "returned"
        /\ sarg = s
        /\ smsg # NullMessage
        /\ SubscriptionMatches(s, smsg.topic)
        /\ sret = "Rejected"

\* C30: a published message is routed by the topic argument of publish: the
\* subscriptions a worker collects for it are exactly those whose filter
\* matches the topic_str that was passed with it, also when the topic of the
\* message is another one. (Violated: process_message matches on
\* message->topic() and publish never uses topic_str.)
C30_RoutedByTopicArgument ==
    [][\A w \in Workers :
          SnapshotStep(w) =>
              \A s \in subscriptions :
                  s \in wsnap'[w] <=>
                      FilterMatches(subs[s].pattern, passed[wmsg[w].id])
      ]_vars

\* C30 as the code has it: the subscriptions collected are exactly those
\* whose filter matches the topic of the message, whatever was passed as
\* topic_str.
C30_RoutedByMessageTopic ==
    [][\A w \in Workers :
          SnapshotStep(w) =>
              \A s \in subscriptions :
                  s \in wsnap'[w] <=>
                      FilterMatches(subs[s].pattern, wmsg[w].topic)
      ]_vars

\* A callback was invoked for a message whose topic_str argument the
\* filter of the subscription does not match.
C30_DeliveredAgainstTopicArgument ==
    \E e \in BagToSet(invoked) :
        /\ e.result = "Success"
        /\ ~FilterMatches(subs[e.sub].pattern, passed[e.id])

\* The ids of the messages in the queue, front first.
QueuedIds == [i \in 1..Len(queue) |-> queue[i].id]

\* The publish calls that have pushed their message and not returned yet.
PushedNotReturned == {p \in Callers : ppc[p] = "notify"}

\* The messages pushed so far are the messages popped so far followed by the
\* messages in the queue, each of them once; a publish call returns true if
\* and only if it pushed its message.
Conserved ==
    /\ enqueued = dequeued \o QueuedIds
    /\ \A i, j \in 1..Len(enqueued) : enqueued[i] = enqueued[j] => i = j
    /\ accepted + Cardinality(PushedNotReturned) = Len(enqueued)

\* The queue changes by the push of a publish call or by the pop of a
\* worker, which takes the message at the front for itself.
PushOrPop ==
    queue' # queue =>
        \/ \E p \in Callers :
              /\ ppc[p] = "enqueue"
              /\ ppc'[p] = "notify"
              /\ queue' = Append(queue, pmsg[p])
        \/ \E w \in Workers :
              /\ wpc[w] = "lock"
              /\ wpc'[w] = "process"
              /\ queue # << >>
              /\ queue' = Tail(queue)
              /\ wmsg'[w] = Head(queue)

\* C31: message conservation on the queue. In every reachable state the
\* number of publish calls that returned true (counted from their push, the
\* step that makes them return true) equals the number of messages dequeued
\* by the workers plus the number of messages in the queue; no message is
\* dequeued twice, and none leaves the queue other than by a worker's
\* dequeue.
C31_MessagesConserved == []Conserved /\ [][PushOrPop]_vars

\* C31, witness: with a publish call between its push and its return, some
\* messages have been dequeued, another is in the queue, the broker has been
\* shut down, and every earlier call has returned true.
C31_Witness ==
    /\ Len(dequeued) > 0
    /\ Len(queue) > 0
    /\ ~running
    /\ accepted > 0
    /\ PushedNotReturned # {}

====
